---- MODULE Spec2Model ----
(***************************************************************************)
(* Model of src/app.js: the location -> postal code -> boundary -> rates   *)
(* -> neighbours pipeline, its overlay bookkeeping on the shared map, and  *)
(* the rate normalisation / deduplication helpers.                         *)
(***************************************************************************)
EXTENDS Integers, Sequences, FiniteSets, TLC

\* ------------------------------------------------------------------------
\* Bounds of the model
\* ------------------------------------------------------------------------
MaxRuns == 2
MaxPipelineRuns == 1
MaxClicks == 1
MaxElements == 1
MaxZoneElements == 3
MaxMonths == 3
MaxSubs == 2
MaxRecords == 2
MaxQuotes == 2

\* ------------------------------------------------------------------------
\* JavaScript values
\* ------------------------------------------------------------------------
Undef == [t |-> "undefined"]
Null == [t |-> "null"]
NaN == [t |-> "NaN"]
PosInf == [t |-> "Infinity"]
NegInf == [t |-> "-Infinity"]
Num(n) == [t |-> "number", n |-> n]
Str(s) == [t |-> "string", s |-> s]
Arr(items) == [t |-> "array", items |-> items]

IsNullish(v) == v.t \in {"undefined", "null"}
IsArray(v) == v.t = "array"

\* ToBoolean, as used by `||`, `&&` and `if`
Truthy(v) ==
    CASE v.t \in {"undefined", "null", "NaN"} -> FALSE
      [] v.t = "number" -> v.n # 0
      [] v.t = "string" -> v.s # ""
      [] OTHER -> TRUE

\* Property read `v.f` on a non-nullish value: undefined when v has no f
Get(v, f) == IF f \in DOMAIN v THEN v[f] ELSE Undef

\* ToString, as used by template literals
ToStr(v) ==
    CASE v.t = "number" -> ToString(v.n)
      [] v.t = "string" -> v.s
      [] OTHER -> v.t

\* ToNumber, as applied by Math.min / Math.max to their arguments
ToNumber(v) ==
    CASE v.t = "undefined" -> NaN
      [] v.t = "null" -> Num(0)
      [] OTHER -> v

\* The === operator on numbers and strings
StrictEq(a, b) == a.t # "NaN" /\ b.t # "NaN" /\ a = b

SeqUpTo(S, n) == UNION {[1..k -> S] : k \in 0..n}

\* Outcome of a computation that may throw
Raise == [raised |-> TRUE, val |-> <<>>]
Ok(v) == [raised |-> FALSE, val |-> v]

\* ------------------------------------------------------------------------
\* normalizeRates (src/app.js 182-212)
\* ------------------------------------------------------------------------
MathMin(prices) ==
    LET nums == [i \in DOMAIN prices |-> ToNumber(prices[i])]
    IN  IF \E i \in DOMAIN nums : nums[i].t = "NaN" THEN NaN
        ELSE IF nums = <<>> THEN PosInf
        ELSE Num(CHOOSE m \in {nums[i].n : i \in DOMAIN nums} :
                     \A i \in DOMAIN nums : m <= nums[i].n)

MathMax(prices) ==
    LET nums == [i \in DOMAIN prices |-> ToNumber(prices[i])]
    IN  IF \E i \in DOMAIN nums : nums[i].t = "NaN" THEN NaN
        ELSE IF nums = <<>> THEN NegInf
        ELSE Num(CHOOSE m \in {nums[i].n : i \in DOMAIN nums} :
                     \A i \in DOMAIN nums : m >= nums[i].n)

\* `r.months && r.months.month && Array.isArray(r.months.month)` (line 198)
HasBreakdown(r) ==
    /\ Truthy(Get(r, "months"))
    /\ Truthy(Get(Get(r, "months"), "month"))
    /\ IsArray(Get(Get(r, "months"), "month"))

\* lines 200-204: the lodging value computed from a breakdown array
LodgingOf(month) ==
    IF \E i \in DOMAIN month : IsNullish(month[i]) THEN Raise
    ELSE LET prices == [i \in DOMAIN month |-> Get(month[i], "value")]
             min == MathMin(prices)
             max == MathMax(prices)
         IN  Ok(IF StrictEq(min, max) THEN min
                ELSE Str(ToStr(min) \o "-" \o ToStr(max)))

\* lines 192-208: the body of subRates.forEach for one sub-record r
SubRate(r) ==
    IF IsNullish(r) THEN Raise
    ELSE LET mie == Get(r, "meals")
             lodging == IF HasBreakdown(r)
                        THEN LodgingOf(Get(Get(r, "months"), "month").items)
                        ELSE Ok(Str("N/A"))
         IN  IF lodging.raised THEN Raise
             ELSE Ok([lodging |-> lodging.val, mie |-> mie])

RECURSIVE ForEachSub(_, _, _)
ForEachSub(subRates, i, normalized) ==
    IF i > Len(subRates) THEN Ok(normalized)
    ELSE LET q == SubRate(subRates[i])
         IN  IF q.raised THEN Raise
             ELSE ForEachSub(subRates, i + 1, Append(normalized, q.val))

\* lines 187-209: the body of list.forEach for one top-level record
MainItem(mainItem, normalized) ==
    IF IsNullish(mainItem) THEN Raise
    ELSE LET subRates == IF Truthy(Get(mainItem, "rate"))
                         THEN Get(mainItem, "rate") ELSE Arr(<<>>)
         IN  IF ~IsArray(subRates) THEN Raise
             ELSE ForEachSub(subRates.items, 1, normalized)

RECURSIVE ForEachMain(_, _, _)
ForEachMain(list, i, normalized) ==
    IF i > Len(list) THEN Ok(normalized)
    ELSE LET n == MainItem(list[i], normalized)
         IN  IF n.raised THEN Raise
             ELSE ForEachMain(list, i + 1, n.val)

normalizeRates(rawRates) ==
    LET list == IF IsArray(rawRates) THEN rawRates.items ELSE <<rawRates>>
    IN  ForEachMain(list, 1, <<>>)

\* ------------------------------------------------------------------------
\* dedupeRates (src/app.js 216-227)
\* ------------------------------------------------------------------------
OrNA(v) == IF Truthy(v) THEN v ELSE Str("N/A")

DedupeKey(r) == ToStr(OrNA(r.lodging)) \o "-" \o ToStr(OrNA(r.mie))

\* lines 219-225 with `unique.unshift(r)` in place of `unique.push(r)`
RECURSIVE DedupeLoop_unshift(_, _, _, _)
DedupeLoop_unshift(rates, i, seen, unique) ==
    IF i > Len(rates) THEN unique
    ELSE LET key == DedupeKey(rates[i])
         IN  IF key \notin seen
             THEN DedupeLoop_unshift(rates, i + 1, seen \cup {key}, <<rates[i]>> \o unique)
             ELSE DedupeLoop_unshift(rates, i + 1, seen, unique)

RECURSIVE DedupeLoop(_, _, _, _)
DedupeLoop(rates, i, seen, unique) ==
    IF i > Len(rates) THEN unique
    ELSE LET key == DedupeKey(rates[i])
         IN  IF key \notin seen
             THEN DedupeLoop(rates, i + 1, seen \cup {key}, Append(unique, rates[i]))
             ELSE DedupeLoop(rates, i + 1, seen, unique)

dedupeRates(rates) == DedupeLoop(rates, 1, {}, <<>>)

\* ------------------------------------------------------------------------
\* State of the page (src/app.js 1-13) and of the runs in flight
\* ------------------------------------------------------------------------
VARIABLES
    targetLayer,       \* line 7: the tracked target overlay, or NoLayer
    mapLayers,         \* overlays attached directly to the map by addTo(map)
    surroundingLayer,  \* line 8: the layers of the neighbour layer group
    mapView,           \* centre and zoom of the map
    status,            \* statusEl: text, error class, spinner
    ratePanel,         \* ratePanel.style.display
    rateList,          \* the <li> items of rateList
    popup,             \* the popup open on the map, or NoPopup
    nextRun,           \* number of handler invocations started so far, plus 1
    pc,                \* per run: the await it is suspended at
    kind,              \* per run: "search" or "locate"
    overlap,           \* per run: whether another run was in flight when it began
    local,             \* per run: the handler's lat/lon, targetZip, label
    lastStep,          \* the last step a run took: the run, and the requests it
                       \* issued and effects it applied in that step, in order
    clicks,            \* overlay clicks whose rate request is in flight
    nclicks,           \* number of overlay clicks so far
    fn,                \* the helper called on its own, "none" on the page
    arg,               \* the argument it is called with
    called,            \* whether the call has been made
    result             \* what the call returned

vars == <<targetLayer, mapLayers, surroundingLayer, mapView, status, ratePanel,
          rateList, popup, nextRun, pc, kind, overlap, local, lastStep,
          clicks, nclicks, fn, arg, called, result>>

helper == <<fn, arg, called, result>>

Runs == 1..(MaxRuns + 1)
NeighborCodes == {"z1", "z3"}

NoLayer == [run |-> 0, role |-> "none", zip |-> "", shape |-> "none", at |-> <<0, 0>>]
NoPopup == [zip |-> "", content |-> <<>>, at |-> <<0, 0>>, open |-> FALSE]
NoLocal == [center |-> <<0, 0>>, zip |-> "", label |-> ""]

\* lines 108-117
updateStatus(message, isError, isLoading) ==
    [message |-> message, isError |-> isError, isLoading |-> isLoading]

\* Messages of the errors thrown by the platform rather than by app.js
FetchRejected == "Failed to fetch"
JsonRejected == "Unexpected token in JSON"
TypeErrorMsg == "Cannot read properties of null"

\* The three ways a fetch + res.json() can end without a usable body
Rejected == [k |-> "reject"]
NotOk == [k |-> "notok"]
BadJson == [k |-> "badjson"]
OkReply(data) == [k |-> "ok", data |-> data]
Replies(bodies) == {Rejected, NotOk, BadJson} \cup {OkReply(d) : d \in bodies}
Successes(bodies) == {OkReply(d) : d \in bodies}

\* Outcome of an async helper: it throws an Error or returns a value
Thrown(msg) == [raised |-> TRUE, msg |-> msg, val |-> Null]
Returned(v) == [raised |-> FALSE, msg |-> "", val |-> v]

\* `v?.f`
OptGet(v, f) == IF IsNullish(v) THEN Undef ELSE Get(v, f)

\* `a || b`
OrElse(a, b) == IF Truthy(a) THEN a ELSE b

\* `data[0]` on an array
First(data) == IF Len(data.items) > 0 THEN data.items[1] ELSE Undef

\* ------------------------------------------------------------------------
\* Replies of the external services, drawn from small sets
\* ------------------------------------------------------------------------
Obj == [t |-> "object"]
Place(lat, lon, name, address) ==
    [t |-> "object", lat |-> Str(lat), lon |-> Str(lon),
     display_name |-> Str(name), address |-> address]
Address(postcode) == [t |-> "object", postcode |-> postcode]

Places == { Place("30", "-97", "Austin", Address(Str("z1"))),
            Place("30", "-97", "Zilker Park", Address(Undef)) }
GeocodeBodies == {Arr(<<>>)} \cup {Arr(<<p>>) : p \in Places}

ReverseBodies == {Null, Obj, [t |-> "object", address |-> Address(Undef)],
                  [t |-> "object", address |-> Address(Str("z2"))]}

Positions == {<<40, -74>>}

GeoJson == [t |-> "object", type |-> Str("Polygon")]
BoundaryBodies == {Arr(<<>>), Arr(<<Obj>>), Arr(<<[t |-> "object", geojson |-> GeoJson]>>)}

Month(v) == [t |-> "object", value |-> v]
SubRec(meals, months) == [t |-> "object", meals |-> meals, months |-> months]
Months(month) == [t |-> "object", month |-> month]
Rec(rate) == [t |-> "object", rate |-> rate]

Flat150 == SubRec(Num(79), Months(Arr(<<Month(Num(150)), Month(Num(150))>>)))

RateBodies == { Null,
                [t |-> "object", rates |-> Arr(<<Rec(Arr(<<Flat150, Flat150>>))>>)],
                [t |-> "object", rate |-> Rec(Arr(<<Flat150>>))],
                [t |-> "object", rates |-> Arr(<<Null>>)],
                [t |-> "object", rates |-> Rec(Num(5))] }

Points == Arr(<<[t |-> "object", lat |-> Num(30), lon |-> Num(-97)]>>)
Element(tags, geometry) == [t |-> "object", tags |-> tags, geometry |-> geometry]
Elements == {Element(tags, g) :
                tags \in {Undef} \cup {[t |-> "object", postal_code |-> Str(c)] :
                                          c \in NeighborCodes},
                g \in {Undef, Points}}
NeighborBodies == {Null, Obj}
                  \cup {[t |-> "object", elements |-> Arr(s)] :
                           s \in SeqUpTo(Elements, MaxElements)}

\* Elements that carry a postal code and a geometry, and a reply of the rate
\* service with one flat-rate record
Shaped == {Element([t |-> "object", postal_code |-> Str(c)], Points) : c \in {"z3", "z4"}}
FlatRates == OkReply([t |-> "object", rate |-> Rec(Arr(<<Flat150>>))])

Queries == {"", "  ", "Austin, TX"}

\* String.prototype.trim on the queries of the model
Trim(query) == IF query = "  " THEN "" ELSE query

\* parseFloat on the coordinate strings of the model
ParseFloat(v) ==
    CASE v.s = "30" -> 30
      [] v.s = "-97" -> -97
      [] v.s = "40" -> 40
      [] v.s = "-74" -> -74

\* ------------------------------------------------------------------------
\* API helpers, as functions of the reply their fetch resumes with
\* ------------------------------------------------------------------------
\* lines 121-127
geocode(reply) ==
    CASE reply.k = "reject" -> Thrown(FetchRejected)
      [] reply.k = "notok" -> Thrown("Geocoding failed. Please try again later.")
      [] reply.k = "badjson" -> Thrown(JsonRejected)
      [] OTHER -> Returned(First(reply.data))

\* lines 131-135: resolveZip after its reverse lookup
resolveZipReverse(reply) ==
    CASE reply.k = "reject" -> Thrown(FetchRejected)
      [] reply.k = "notok" -> Returned(Null)
      [] reply.k = "badjson" -> Thrown(JsonRejected)
      [] OTHER -> IF IsNullish(reply.data) THEN Thrown(TypeErrorMsg)
                  ELSE Returned(OrElse(OptGet(Get(reply.data, "address"), "postcode"), Null))

\* line 130: the postcode the place carries, a falsy value when it carries none
PlacePostcode(place) ==
    IF Truthy(Get(place, "address")) THEN Get(Get(place, "address"), "postcode")
    ELSE Get(place, "address")

\* lines 138-144 with a reply without geometry treated like a failed request
fetchZipBoundary_strict(reply) ==
    CASE reply.k = "reject" -> Thrown(FetchRejected)
      [] reply.k = "notok" -> Thrown("Could not load boundary for the target Zip Code.")
      [] reply.k = "badjson" -> Thrown(JsonRejected)
      [] OTHER -> IF Truthy(OptGet(First(reply.data), "geojson"))
                  THEN Returned(OptGet(First(reply.data), "geojson"))
                  ELSE Thrown("Could not load boundary for the target Zip Code.")

\* lines 138-144
fetchZipBoundary(reply) ==
    CASE reply.k = "reject" -> Thrown(FetchRejected)
      [] reply.k = "notok" -> Thrown("Could not load boundary for the target Zip Code.")
      [] reply.k = "badjson" -> Thrown(JsonRejected)
      [] OTHER -> Returned(OrElse(OptGet(First(reply.data), "geojson"), Null))

\* line 174: `data?.rates || data?.rate || []`
RawRates(data) == OrElse(OptGet(data, "rates"), OrElse(OptGet(data, "rate"), Arr(<<>>)))

\* lines 147-180 with normalizeRates called outside the try block
fetchPerDiem_unguarded(reply) ==
    CASE reply.k = "reject" -> Returned(<<>>)
      [] reply.k = "notok" -> Returned(<<>>)
      [] reply.k = "badjson" -> Returned(<<>>)
      [] OTHER ->
            LET n == normalizeRates(RawRates(reply.data))
            IN  IF n.raised THEN Thrown(TypeErrorMsg) ELSE Returned(n.val)

\* lines 147-180: every statement that can throw is inside the try block, whose
\* catch returns []
fetchPerDiem(reply) ==
    CASE reply.k = "reject" -> Returned(<<>>)
      [] reply.k = "notok" -> Returned(<<>>)
      [] reply.k = "badjson" -> Returned(<<>>)
      [] OTHER ->
            LET n == normalizeRates(RawRates(reply.data))
            IN  IF n.raised THEN Returned(<<>>) ELSE Returned(n.val)

\* lines 302-310 without `seen.add(code)`
RECURSIVE ZonesLoop_unseen(_, _, _, _, _)
ZonesLoop_unseen(elements, i, targetZip, seen, zones) ==
    IF i > Len(elements) THEN Returned(zones)
    ELSE LET el == elements[i]
         IN  IF IsNullish(el) THEN Thrown(TypeErrorMsg)
             ELSE LET code == OptGet(Get(el, "tags"), "postal_code")
                  IN  IF ~Truthy(code) \/ code.s = targetZip \/ code.s \in seen
                      THEN ZonesLoop_unseen(elements, i + 1, targetZip, seen, zones)
                      ELSE ZonesLoop_unseen(elements, i + 1, targetZip, seen,
                                            Append(zones, [postalCode |-> code.s,
                                                           geometry |-> Get(el, "geometry")]))

\* lines 302-310: the loop over data.elements
RECURSIVE ZonesLoop(_, _, _, _, _)
ZonesLoop(elements, i, targetZip, seen, zones) ==
    IF i > Len(elements) THEN Returned(zones)
    ELSE LET el == elements[i]
         IN  IF IsNullish(el) THEN Thrown(TypeErrorMsg)
             ELSE LET code == OptGet(Get(el, "tags"), "postal_code")
                  IN  IF ~Truthy(code) \/ code.s = targetZip \/ code.s \in seen
                      THEN ZonesLoop(elements, i + 1, targetZip, seen, zones)
                      ELSE ZonesLoop(elements, i + 1, targetZip, seen \cup {code.s},
                                     Append(zones, [postalCode |-> code.s,
                                                    geometry |-> Get(el, "geometry")]))

\* lines 294-311
fetchSurroundingZips(reply, targetZip) ==
    CASE reply.k = "reject" -> Thrown(FetchRejected)
      [] reply.k = "notok" -> Returned(<<>>)
      [] reply.k = "badjson" -> Thrown(JsonRejected)
      [] OTHER -> IF IsNullish(reply.data) THEN Thrown(TypeErrorMsg)
                  ELSE ZonesLoop(OrElse(Get(reply.data, "elements"), Arr(<<>>)).items,
                                 1, targetZip, {}, <<>>)

\* lines 284-292: whether a zone yields a layer (zones carry no geojson field)
toLeafletShape(zone) ==
    Truthy(zone.geometry) /\ IsArray(zone.geometry) /\ Len(zone.geometry.items) > 0

\* ------------------------------------------------------------------------
\* UI helpers
\* ------------------------------------------------------------------------
\* lines 100-106
clearLayers ==
    [targetLayer |-> NoLayer,
     mapLayers |-> IF targetLayer # NoLayer THEN mapLayers \ {targetLayer} ELSE mapLayers,
     surroundingLayer |-> {}]

\* lines 229-242: the items of rateList after displayRates
displayRates(zip, rates) ==
    LET unique == dedupeRates(rates)
    IN  IF Len(unique) = 0 THEN <<"No per diem data for this zip.">>
        ELSE [i \in DOMAIN unique |->
                "Zip " \o zip \o ": Lodging $" \o ToStr(unique[i].lodging)
                       \o " / M&IE $" \o ToStr(unique[i].mie)]

\* lines 313-320
buildPopupContent(zip, rates) ==
    LET unique == dedupeRates(rates)
    IN  IF Len(unique) = 0 THEN <<"Zip " \o zip, "No per diem data.">>
        ELSE <<"Zip " \o zip>> \o
             [i \in DOMAIN unique |->
                "Lodging $" \o ToStr(unique[i].lodging) \o " | M&IE $" \o ToStr(unique[i].mie)]

\* lines 244-261: the overlay drawTarget creates for run r, and the map after it
TargetOverlay(r, geojson, fallbackCenter, zip) ==
    [run |-> r, role |-> "target", zip |-> zip,
     shape |-> IF Truthy(geojson) THEN "polygon" ELSE "marker",
     at |-> fallbackCenter]

\* lines 244-261 with the tracked target removed from the map before the new one
\* is drawn
drawTarget_replacing(r, geojson, fallbackCenter, zip) ==
    LET layer == TargetOverlay(r, geojson, fallbackCenter, zip)
    IN  [targetLayer |-> layer,
         mapLayers |-> (mapLayers \ {targetLayer}) \cup {layer},
         mapView |-> IF Truthy(geojson) THEN [center |-> fallbackCenter, zoom |-> "fit"]
                     ELSE mapView]

drawTarget(r, geojson, fallbackCenter, zip) ==
    LET layer == TargetOverlay(r, geojson, fallbackCenter, zip)
    IN  [targetLayer |-> layer,
         mapLayers |-> mapLayers \cup {layer},
         mapView |-> IF Truthy(geojson) THEN [center |-> fallbackCenter, zoom |-> "fit"]
                     ELSE mapView]

\* lines 271-281 with every callback suspended before `surroundingLayer.addLayer`:
\* nothing is attached by the time forEach returns
NeighborLayers_deferred(r, neighbors) == {}

\* lines 271-281: the neighbour layers run r adds to the layer group
NeighborLayers(r, neighbors) ==
    {[run |-> r, role |-> "neighbor", zip |-> neighbors[i].postalCode, shape |-> "polygon", at |-> <<0, 0>>] :
        i \in {j \in DOMAIN neighbors : toLeafletShape(neighbors[j])}}

\* ------------------------------------------------------------------------
\* Order of the effects and requests between two awaits of updateView
\* ------------------------------------------------------------------------
\* lines 84-88
UpdateViewStart == <<"setView", "boundaryReq">>
\* lines 89-92 with the rate request issued before the target is drawn
AfterBoundary_pipelined == <<"rateReq", "drawTarget">>
\* lines 89-92
AfterBoundary == <<"drawTarget", "rateReq">>
\* lines 93-96 and 264-265
AfterRates == <<"displayRates", "neighborReq">>
\* lines 271-281 with the zone's rates fetched as its layer is built
ForEachNeighbor_eager(zone) ==
    IF toLeafletShape(zone) THEN <<"rateReq", "attach">> ELSE <<>>

\* lines 271-281: the forEach callback for one zone; its click handler is only
\* registered, and nothing in it is awaited
ForEachNeighbor(zone) == IF toLeafletShape(zone) THEN <<"attach">> ELSE <<>>

RECURSIVE NeighborSteps(_, _)
NeighborSteps(neighbors, i) ==
    IF i > Len(neighbors) THEN <<>>
    ELSE ForEachNeighbor(neighbors[i]) \o NeighborSteps(neighbors, i + 1)

\* lines 266-281 and 97: the callbacks run to completion inside forEach, then
\* renderSurrounding returns and updateView announces completion
AfterNeighbors(neighbors) == NeighborSteps(neighbors, 1) \o <<"complete">>

\* ------------------------------------------------------------------------
\* Initial state
\* ------------------------------------------------------------------------
Init ==
    /\ targetLayer = NoLayer
    /\ mapLayers = {}
    /\ surroundingLayer = {}
    /\ mapView = [center |-> <<39, -98>>, zoom |-> "4"]
    /\ status = updateStatus("", FALSE, FALSE)
    /\ ratePanel = "none"
    /\ rateList = <<>>
    /\ popup = NoPopup
    /\ nextRun = 1
    /\ pc = [r \in Runs |-> "idle"]
    /\ kind = [r \in Runs |-> "none"]
    /\ overlap = [r \in Runs |-> FALSE]
    /\ local = [r \in Runs |-> NoLocal]
    /\ lastStep = [run |-> 0, heard |-> "none", did |-> <<>>]
    /\ clicks = {}
    /\ nclicks = 0
    /\ fn = "none"
    /\ arg = <<>>
    /\ called = FALSE
    /\ result = <<>>

\* ------------------------------------------------------------------------
\* Steps shared by the two handlers
\* ------------------------------------------------------------------------
\* The runs suspended at an await or waiting for the device's position
InFlight == {r \in Runs : pc[r] \notin {"idle", "ready", "failed"}}
Finished == {r \in Runs : pc[r] \in {"ready", "failed"}}

\* lines 38-41 and 71-74 with a catch block that reports the error and waits for
\* the same request to be answered again
Catch_retry(r, heard, message) ==
    /\ status' = updateStatus(message, TRUE, FALSE)
    /\ pc' = pc
    /\ local' = local
    /\ lastStep' = [run |-> r, heard |-> heard, did |-> <<"retry">>]

\* lines 38-41 and 71-74: the catch block of run r
Catch(r, heard, message) ==
    /\ status' = updateStatus(message, TRUE, FALSE)
    /\ pc' = [pc EXCEPT ![r] = "failed"]
    /\ local' = [local EXCEPT ![r] = NoLocal]
    /\ lastStep' = [run |-> r, heard |-> heard, did |-> <<"failed">>]

\* lines 82-88: updateView up to its first await
UpdateViewEnter(r, heard, center, zip, label, replyEvent) ==
    /\ mapView' = [center |-> center, zoom |-> "11"]
    /\ status' = updateStatus("Centering map on " \o label \o " (Zip " \o zip \o ")...",
                              FALSE, TRUE)
    /\ pc' = [pc EXCEPT ![r] = "boundary"]
    /\ local' = [local EXCEPT ![r] = [center |-> center, zip |-> zip, label |-> label]]
    /\ lastStep' = [run |-> r, heard |-> heard, did |-> <<replyEvent>> \o UpdateViewStart]

NoZipMessage(k) ==
    IF k = "search" THEN "Could not determine a Zip Code for this location."
    ELSE "Could not determine a Zip Code for your location."

\* ------------------------------------------------------------------------
\* Search handler (lines 16-42)
\* ------------------------------------------------------------------------
Search(query, limit) ==
    /\ nextRun <= limit
    /\ IF Trim(query) = "" THEN UNCHANGED vars
       ELSE LET r == nextRun IN
            /\ targetLayer' = clearLayers.targetLayer
            /\ mapLayers' = clearLayers.mapLayers
            /\ surroundingLayer' = clearLayers.surroundingLayer
            /\ status' = updateStatus("Searching for location...", FALSE, TRUE)
            /\ ratePanel' = "none"
            /\ rateList' = <<>>
            /\ nextRun' = r + 1
            /\ pc' = [pc EXCEPT ![r] = "geocode"]
            /\ kind' = [kind EXCEPT ![r] = "search"]
            /\ overlap' = [overlap EXCEPT ![r] = InFlight # {}]
            /\ lastStep' = [run |-> r, heard |-> "none",
                                         did |-> <<"clear", "geocodeReq">>]
            /\ UNCHANGED <<mapView, popup, local, clicks, nclicks, helper>>

GeocodeReply(r, reply) ==
    /\ pc[r] = "geocode"
    /\ UNCHANGED helper
    /\ LET g == geocode(reply)
           place == g.val
       IN  IF g.raised
           THEN Catch(r, reply.k, g.msg) /\ UNCHANGED mapView
           ELSE IF ~Truthy(place)
           THEN Catch(r, reply.k, "No matching location found.") /\ UNCHANGED mapView
           ELSE LET center == <<ParseFloat(place.lat), ParseFloat(place.lon)>>
                    postcode == PlacePostcode(place)
                IN  IF Truthy(postcode)
                    THEN UpdateViewEnter(r, reply.k, center, postcode.s,
                                         place.display_name.s, "geocodeReply")
                    ELSE /\ pc' = [pc EXCEPT ![r] = "reverse"]
                         /\ local' = [local EXCEPT ![r] =
                                [center |-> center, zip |-> "",
                                 label |-> place.display_name.s]]
                         /\ lastStep' = [run |-> r, heard |-> reply.k,
                                          did |-> <<"geocodeReply", "reverseReq">>]
                         /\ UNCHANGED <<mapView, status>>
    /\ UNCHANGED <<targetLayer, mapLayers, surroundingLayer, ratePanel, rateList,
                   popup, nextRun, kind, overlap, clicks, nclicks>>

\* lines 33-36 and 65-69: resolveZip resumes with the reverse lookup's reply
ReverseReply(r, reply) ==
    /\ pc[r] = "reverse"
    /\ UNCHANGED helper
    /\ LET z == resolveZipReverse(reply)
       IN  IF z.raised
           THEN Catch(r, reply.k, z.msg) /\ UNCHANGED mapView
           ELSE IF ~Truthy(z.val)
           THEN Catch(r, reply.k, NoZipMessage(kind[r])) /\ UNCHANGED mapView
           ELSE UpdateViewEnter(r, reply.k, local[r].center, z.val.s, local[r].label,
                                "reverseReply")
    /\ UNCHANGED <<targetLayer, mapLayers, surroundingLayer, ratePanel, rateList,
                   popup, nextRun, kind, overlap, clicks, nclicks>>

\* ------------------------------------------------------------------------
\* Locate handler (lines 45-79)
\* ------------------------------------------------------------------------
LocateClick(geolocation, limit) ==
    /\ nextRun <= limit
    /\ UNCHANGED helper
    /\ LET r == nextRun IN
       /\ nextRun' = r + 1
       /\ kind' = [kind EXCEPT ![r] = "locate"]
       /\ overlap' = [overlap EXCEPT ![r] = InFlight # {}]
       /\ IF ~geolocation
          THEN /\ status' = updateStatus("Geolocation is not supported by your browser.",
                                         TRUE, FALSE)
               /\ pc' = [pc EXCEPT ![r] = "failed"]
               /\ lastStep' = [run |-> r, heard |-> "none", did |-> <<"failed">>]
          ELSE /\ status' = updateStatus("Locating...", FALSE, TRUE)
               /\ pc' = [pc EXCEPT ![r] = "locating"]
               /\ lastStep' = [run |-> r, heard |-> "none", did |-> <<"positionReq">>]
    /\ UNCHANGED <<targetLayer, mapLayers, surroundingLayer, mapView, ratePanel,
                   rateList, popup, local, clicks, nclicks>>

\* lines 54-64: the success callback, up to the await inside resolveZip
PositionFound(r, pos) ==
    /\ pc[r] = "locating"
    /\ UNCHANGED helper
    /\ targetLayer' = clearLayers.targetLayer
    /\ mapLayers' = clearLayers.mapLayers
    /\ surroundingLayer' = clearLayers.surroundingLayer
    /\ status' = updateStatus("Found location. Finding Zip Code...", FALSE, TRUE)
    /\ ratePanel' = "none"
    /\ rateList' = <<>>
    /\ pc' = [pc EXCEPT ![r] = "reverse"]
    /\ local' = [local EXCEPT ![r] =
                    [center |-> pos, zip |-> "", label |-> "Your Location"]]
    /\ lastStep' = [run |-> r, heard |-> "position",
                     did |-> <<"positionReply", "clear", "reverseReq">>]
    /\ UNCHANGED <<mapView, popup, nextRun, kind, overlap, clicks, nclicks>>

\* lines 75-77: the error callback
PositionFailed(r) ==
    /\ pc[r] = "locating"
    /\ UNCHANGED helper
    /\ status' = updateStatus("Unable to retrieve your location.", TRUE, FALSE)
    /\ pc' = [pc EXCEPT ![r] = "failed"]
    /\ lastStep' = [run |-> r, heard |-> "positionError", did |-> <<"failed">>]
    /\ UNCHANGED <<targetLayer, mapLayers, surroundingLayer, mapView, ratePanel,
                   rateList, popup, nextRun, kind, overlap, local, clicks, nclicks>>

\* ------------------------------------------------------------------------
\* updateView (lines 82-98) and renderSurrounding (lines 263-282)
\* ------------------------------------------------------------------------
\* lines 88-92: the boundary reply arrives; draw the target, ask for its rates
BoundaryReply(r, reply) ==
    /\ pc[r] = "boundary"
    /\ UNCHANGED helper
    /\ LET b == fetchZipBoundary(reply)
           drawn == drawTarget(r, b.val, local[r].center, local[r].zip)
       IN  IF b.raised
           THEN /\ Catch(r, reply.k, b.msg)
                /\ UNCHANGED <<targetLayer, mapLayers, mapView>>
           ELSE /\ targetLayer' = drawn.targetLayer
                /\ mapLayers' = drawn.mapLayers
                /\ mapView' = drawn.mapView
                /\ pc' = [pc EXCEPT ![r] = "rate"]
                /\ lastStep' = [run |-> r, heard |-> reply.k,
                                 did |-> <<"boundaryReply">> \o AfterBoundary]
                /\ UNCHANGED <<status, local>>
    /\ UNCHANGED <<surroundingLayer, ratePanel, rateList, popup, nextRun,
                   kind, overlap, clicks, nclicks>>

\* lines 92-96, 264-265: the rate reply arrives; show the rates, ask for neighbours
RateReply(r, reply) ==
    /\ pc[r] = "rate"
    /\ UNCHANGED helper
    /\ LET mainRates == fetchPerDiem(reply)
       IN  IF mainRates.raised
           THEN /\ Catch(r, reply.k, mainRates.msg)
                /\ UNCHANGED <<ratePanel, rateList>>
           ELSE /\ ratePanel' = "block"
                /\ rateList' = displayRates(local[r].zip, mainRates.val)
                /\ status' = updateStatus("Loading surrounding Zip Codes...", FALSE, TRUE)
                /\ pc' = [pc EXCEPT ![r] = "neighbor"]
                /\ lastStep' = [run |-> r, heard |-> reply.k,
                                 did |-> <<"rateReply">> \o AfterRates]
                /\ UNCHANGED local
    /\ UNCHANGED <<targetLayer, mapLayers, surroundingLayer, mapView, popup,
                   nextRun, kind, overlap, clicks, nclicks>>

\* lines 265-281, 97: the regional-index reply arrives; attach the neighbour layers
\* (the forEach callbacks contain no await, so they run to completion in the loop)
\* and announce completion
NeighborReply(r, reply) ==
    /\ pc[r] = "neighbor"
    /\ UNCHANGED helper
    /\ LET n == fetchSurroundingZips(reply, local[r].zip)
       IN  IF n.raised
           THEN /\ Catch(r, reply.k, n.msg)
                /\ UNCHANGED surroundingLayer
           ELSE /\ surroundingLayer' = surroundingLayer \cup NeighborLayers(r, n.val)
                /\ status' = updateStatus("Click any shaded area to see its per diem rate.",
                                          FALSE, FALSE)
                /\ pc' = [pc EXCEPT ![r] = "ready"]
                /\ local' = [local EXCEPT ![r] = NoLocal]
                /\ lastStep' = [run |-> r, heard |-> reply.k,
                                 did |-> <<"neighborReply">> \o AfterNeighbors(n.val)]
    /\ UNCHANGED <<targetLayer, mapLayers, mapView, ratePanel, rateList, popup,
                   nextRun, kind, overlap, clicks, nclicks>>

\* ------------------------------------------------------------------------
\* Overlay clicks (lines 249-251, 259, 275-279, 322-326)
\* ------------------------------------------------------------------------
\* a click on an overlay shown on the map issues one rate request for its zip
Click(layer, limit) ==
    /\ nclicks < limit
    /\ UNCHANGED helper
    /\ layer \in mapLayers \cup surroundingLayer
    /\ nclicks' = nclicks + 1
    /\ clicks' = clicks \cup {[id |-> nclicks + 1, layer |-> layer]}
    /\ UNCHANGED <<targetLayer, mapLayers, surroundingLayer, mapView, status, ratePanel,
                   rateList, popup, nextRun, pc, kind, overlap, local, lastStep>>

\* the click's rate reply arrives: showPopup opens a popup on the map; a neighbour
\* layer binds and opens its popup, which shows only while the layer is on the map
PopupReply(c, reply) ==
    /\ c \in clicks
    /\ UNCHANGED helper
    /\ clicks' = clicks \ {c}
    /\ LET rates == fetchPerDiem(reply)
       IN  popup' = IF ~rates.raised
                       /\ (c.layer.role = "target" \/ c.layer \in surroundingLayer)
                    THEN [zip |-> c.layer.zip,
                          content |-> buildPopupContent(c.layer.zip, rates.val),
                          at |-> c.layer.at, open |-> TRUE]
                    ELSE popup
    /\ UNCHANGED <<targetLayer, mapLayers, surroundingLayer, mapView, status, ratePanel,
                   rateList, nextRun, pc, kind, overlap, local, lastStep, nclicks>>

\* ------------------------------------------------------------------------
\* Specification of the page
\* ------------------------------------------------------------------------
Next ==
    \/ \E query \in Queries : Search(query, MaxRuns)
    \/ \E r \in Runs, reply \in Replies(GeocodeBodies) : GeocodeReply(r, reply)
    \/ \E r \in Runs, reply \in Replies(ReverseBodies) : ReverseReply(r, reply)
    \/ \E geolocation \in BOOLEAN : LocateClick(geolocation, MaxRuns)
    \/ \E r \in Runs, pos \in Positions : PositionFound(r, pos)
    \/ \E r \in Runs : PositionFailed(r)
    \/ \E r \in Runs, reply \in Replies(BoundaryBodies) : BoundaryReply(r, reply)
    \/ \E r \in Runs, reply \in Replies(RateBodies) : RateReply(r, reply)
    \/ \E r \in Runs, reply \in Replies(NeighborBodies) : NeighborReply(r, reply)
    \/ \E layer \in mapLayers \cup surroundingLayer : Click(layer, MaxClicks)
    \/ \E c \in clicks, reply \in Replies(RateBodies) : PopupReply(c, reply)

Spec == Init /\ [][Next]_vars

TypeOK ==
    /\ targetLayer \in {NoLayer} \cup mapLayers
    /\ nextRun \in 1..(MaxRuns + 1)
    /\ \A r \in Runs : pc[r] \in {"idle", "locating", "geocode", "reverse", "boundary",
                                   "rate", "neighbor", "ready", "failed"}
    /\ ratePanel \in {"none", "block"}

\* ------------------------------------------------------------------------
\* The pipeline steps alone: no overlay is clicked
\* ------------------------------------------------------------------------
NextPipeline ==
    \/ \E query \in Queries : Search(query, MaxPipelineRuns)
    \/ \E r \in Runs, reply \in Replies(GeocodeBodies) : GeocodeReply(r, reply)
    \/ \E r \in Runs, reply \in Replies(ReverseBodies) : ReverseReply(r, reply)
    \/ \E geolocation \in BOOLEAN : LocateClick(geolocation, MaxPipelineRuns)
    \/ \E r \in Runs, pos \in Positions : PositionFound(r, pos)
    \/ \E r \in Runs : PositionFailed(r)
    \/ \E r \in Runs, reply \in Replies(BoundaryBodies) : BoundaryReply(r, reply)
    \/ \E r \in Runs, reply \in Replies(RateBodies) : RateReply(r, reply)
    \/ \E r \in Runs, reply \in Replies(NeighborBodies) : NeighborReply(r, reply)

SpecPipeline == Init /\ [][NextPipeline]_vars

\* ------------------------------------------------------------------------
\* The pipeline steps when every request a run waits on is eventually answered:
\* the fetch, the body read or the position callback it is suspended at settles
\* ------------------------------------------------------------------------
Answer(r) ==
    \/ \E reply \in {Rejected, NotOk} \cup Successes(GeocodeBodies) :
          GeocodeReply(r, reply)
    \/ \E reply \in {Rejected, NotOk, OkReply(Obj),
                      OkReply([t |-> "object", address |-> Address(Str("z2"))])} :
          ReverseReply(r, reply)
    \/ \E pos \in Positions : PositionFound(r, pos)
    \/ PositionFailed(r)
    \/ \E reply \in {Rejected, NotOk} \cup Successes(BoundaryBodies) :
          BoundaryReply(r, reply)
    \/ \E reply \in {Rejected, NotOk, FlatRates} : RateReply(r, reply)
    \/ \E reply \in {Rejected, NotOk}
                     \cup {OkReply([t |-> "object", elements |-> Arr(<<el>>)]) :
                              el \in Elements \cup Shaped} :
          NeighborReply(r, reply)

NextAnswered ==
    \/ \E query \in Queries : Search(query, MaxPipelineRuns)
    \/ \E geolocation \in BOOLEAN : LocateClick(geolocation, MaxPipelineRuns)
    \/ \E r \in Runs : Answer(r)

SpecAnswered == Init /\ [][NextAnswered]_vars /\ \A r \in Runs : WF_vars(Answer(r))

\* ------------------------------------------------------------------------
\* One more run than in Spec, against services that always answer successfully;
\* only the device's geolocation may be missing or fail
\* ------------------------------------------------------------------------
NextOverlap ==
    \/ Search("Austin, TX", MaxRuns + 1)
    \/ \E geolocation \in BOOLEAN : LocateClick(geolocation, MaxRuns + 1)
    \/ \E r \in Runs, pos \in Positions : PositionFound(r, pos)
    \/ \E r \in Runs : PositionFailed(r)
    \/ \E r \in Runs, reply \in Successes({Arr(<<p>>) : p \in Places}) :
          GeocodeReply(r, reply)
    \/ \E r \in Runs :
          ReverseReply(r, OkReply([t |-> "object", address |-> Address(Str("z2"))]))
    \/ \E r \in Runs :
          BoundaryReply(r, OkReply(Arr(<<[t |-> "object", geojson |-> GeoJson]>>)))
    \/ \E r \in Runs :
          RateReply(r, OkReply([t |-> "object", rate |-> Rec(Arr(<<Flat150>>))]))
    \/ \E r \in Runs, el \in Elements :
          NeighborReply(r, OkReply([t |-> "object", elements |-> Arr(<<el>>)]))

SpecOverlap == Init /\ [][NextOverlap]_vars

\* ------------------------------------------------------------------------
\* Searches whose lookups succeed, with one more neighbour element and one more
\* overlay click than in Spec
\* ------------------------------------------------------------------------
LazyRateReplies == {NotOk, FlatRates}

NextLazy ==
    \/ Search("Austin, TX", MaxPipelineRuns)
    \/ \E r \in Runs :
          GeocodeReply(r, OkReply(Arr(<<Place("30", "-97", "Austin", Address(Str("z1")))>>)))
    \/ \E r \in Runs :
          BoundaryReply(r, OkReply(Arr(<<[t |-> "object", geojson |-> GeoJson]>>)))
    \/ \E r \in Runs, reply \in LazyRateReplies : RateReply(r, reply)
    \/ \E r \in Runs, els \in SeqUpTo(Shaped, MaxElements + 1) :
          NeighborReply(r, OkReply([t |-> "object", elements |-> Arr(els)]))
    \/ \E layer \in mapLayers \cup surroundingLayer : Click(layer, MaxClicks + 1)
    \/ \E c \in clicks, reply \in LazyRateReplies : PopupReply(c, reply)

SpecLazy == Init /\ [][NextLazy]_vars

\* ------------------------------------------------------------------------
\* Overlapping searches for one place, whose boundary lookup may fail, with
\* overlay clicks
\* ------------------------------------------------------------------------
NextFrame ==
    \/ Search("Austin, TX", MaxRuns)
    \/ \E r \in Runs :
          GeocodeReply(r, OkReply(Arr(<<Place("30", "-97", "Austin", Address(Str("z1")))>>)))
    \/ \E r \in Runs, reply \in {NotOk, OkReply(Arr(<<[t |-> "object", geojson |-> GeoJson]>>))} :
          BoundaryReply(r, reply)
    \/ \E r \in Runs : RateReply(r, FlatRates)
    \/ \E r \in Runs, el \in Shaped :
          NeighborReply(r, OkReply([t |-> "object", elements |-> Arr(<<el>>)]))
    \/ \E layer \in mapLayers \cup surroundingLayer : Click(layer, MaxClicks)
    \/ \E c \in clicks : PopupReply(c, FlatRates)

SpecFrame == Init /\ [][NextFrame]_vars

\* ------------------------------------------------------------------------
\* The helpers called on their own, on inputs drawn from bounded sets
\* ------------------------------------------------------------------------
Entries == {Null, Obj, Month(Num(80)), Month(Num(100)), Month(Num(120))}
MonthFields == {Undef, Num(5)} \cup {Arr(m) : m \in SeqUpTo(Entries, MaxMonths)}
MonthsFields == {Undef, Null} \cup {Months(m) : m \in MonthFields}
SubRecords == {Null} \cup {SubRec(meals, months) :
                              meals \in {Undef, Num(79)}, months \in MonthsFields}
Flat100 == SubRec(Num(79),
                  Months(Arr(<<Month(Num(100)), Month(Num(100)), Month(Num(100))>>)))
Seasonal == SubRec(Num(64), Months(Arr(<<Month(Num(80)), Month(Num(120))>>)))
CoreSubRecords == {Null, Flat100, Seasonal}
RateFields == {Undef, Num(5)} \cup {Arr(<<r>>) : r \in SubRecords}
              \cup {Arr(rs) : rs \in SeqUpTo(CoreSubRecords, MaxSubs)}
MainItems == {Null, Obj} \cup {Rec(rate) : rate \in RateFields}
CoreMainItems == {Null, Rec(Arr(<<Flat100>>)), Rec(Arr(<<Seasonal, Flat100>>))}
RawPayloads == MainItems \cup {Arr(<<m>>) : m \in MainItems}
               \cup {Arr(ms) : ms \in SeqUpTo(CoreMainItems, MaxRecords)}

LodgingValues == {Undef, Num(0), Num(80), Num(100), Str("80-120"), Str("N/A")}
MieValues == {Undef, Num(0), Num(79), Str("120-79"), Str("N/A")}
Quotes == [lodging : LodgingValues, mie : MieValues]
QuoteLists == SeqUpTo(Quotes, MaxQuotes)

ZoneElementLists == SeqUpTo(Elements \cup {Null}, MaxZoneElements)
ZoneReplies == Replies({Null, Obj}
                       \cup {[t |-> "object", elements |-> Arr(els)] :
                                els \in ZoneElementLists})
TargetZips == {"z1", "z2"}

RateReplies == Replies({Null, Obj}
                       \cup {[t |-> "object", rates |-> raw] : raw \in RawPayloads}
                       \cup {[t |-> "object", rate |-> raw] : raw \in RawPayloads})

InitHelpers ==
    /\ targetLayer = NoLayer
    /\ mapLayers = {}
    /\ surroundingLayer = {}
    /\ mapView = [center |-> <<39, -98>>, zoom |-> "4"]
    /\ status = updateStatus("", FALSE, FALSE)
    /\ ratePanel = "none"
    /\ rateList = <<>>
    /\ popup = NoPopup
    /\ nextRun = 1
    /\ pc = [r \in Runs |-> "idle"]
    /\ kind = [r \in Runs |-> "none"]
    /\ overlap = [r \in Runs |-> FALSE]
    /\ local = [r \in Runs |-> NoLocal]
    /\ lastStep = [run |-> 0, heard |-> "none", did |-> <<>>]
    /\ clicks = {}
    /\ nclicks = 0
    /\ called = FALSE
    /\ result = <<>>
    /\ \/ fn = "normalizeRates" /\ arg \in RawPayloads
       \/ fn = "dedupeRates" /\ arg \in QuoteLists
       \/ fn = "fetchPerDiem" /\ arg \in RateReplies
       \/ fn = "fetchSurroundingZips"
             /\ arg \in [reply : ZoneReplies, targetZip : TargetZips]

page == <<targetLayer, mapLayers, surroundingLayer, mapView, status, ratePanel,
          rateList, popup, nextRun, pc, kind, overlap, local, lastStep, clicks,
          nclicks>>

CallNormalizeRates ==
    /\ fn = "normalizeRates" /\ ~called
    /\ called' = TRUE
    /\ result' = normalizeRates(arg)
    /\ UNCHANGED <<page, fn, arg>>

CallDedupeRates ==
    /\ fn = "dedupeRates" /\ ~called
    /\ called' = TRUE
    /\ result' = dedupeRates(arg)
    /\ UNCHANGED <<page, fn, arg>>

\* dedupeRates applied to the list a call of dedupeRates returned
CallDedupeRatesAgain ==
    /\ fn = "dedupeRates" /\ called
    /\ fn' = "dedupeRates again"
    /\ result' = dedupeRates(result)
    /\ UNCHANGED <<page, arg, called>>

CallFetchPerDiem ==
    /\ fn = "fetchPerDiem" /\ ~called
    /\ called' = TRUE
    /\ result' = fetchPerDiem(arg)
    /\ UNCHANGED <<page, fn, arg>>

CallFetchSurroundingZips ==
    /\ fn = "fetchSurroundingZips" /\ ~called
    /\ called' = TRUE
    /\ result' = fetchSurroundingZips(arg.reply, arg.targetZip)
    /\ UNCHANGED <<page, fn, arg>>

NextHelpers ==
    \/ CallNormalizeRates
    \/ CallDedupeRates
    \/ CallDedupeRatesAgain
    \/ CallFetchPerDiem
    \/ CallFetchSurroundingZips

SpecHelpers == InitHelpers /\ [][NextHelpers]_vars

\* ------------------------------------------------------------------------
\* Properties
\* ------------------------------------------------------------------------
Overlays == mapLayers \cup surroundingLayer

\* The step in which run r begins: the search handler passes its query check, or
\* the locate handler obtains a position
Begins(r) ==
    \/ pc[r] = "idle" /\ pc'[r] = "geocode"
    \/ pc[r] = "locating" /\ pc'[r] = "reverse"

\* C1: whenever a run begins (a search submit with a non-empty query, or a locate
\* action whose position is obtained), the map holds no target overlay and no
\* neighbour overlay when that run issues its first request, whatever runs came
\* before it.
C1_MapClearAtRunStart ==
    [][\A r \in Runs : Begins(r) => mapLayers' = {} /\ surroundingLayer' = {}]_vars

\* C2: when the second search was issued while the first was still in flight, then
\* once both runs have finished every overlay on the map was created by the second
\* run.
C2_OnlySecondRunRemains ==
    (/\ kind[1] = "search" /\ kind[2] = "search" /\ overlap[2]
     /\ nextRun = 3 /\ {1, 2} \subseteq Finished)
        => \A layer \in Overlays : layer.run = 2

\* C3: the map never holds more than one target overlay, and every target overlay
\* attached to the map is the one targetLayer refers to.
C3_SingleTrackedTarget ==
    /\ Cardinality(mapLayers) <= 1
    /\ \A layer \in mapLayers : layer = targetLayer

\* The step in which run r ends by one of the fatal errors: geolocation missing or
\* denied, location not found, no postal code, boundary-service error
FailsFatally(r) ==
    /\ pc[r] \in {"idle", "locating", "geocode", "reverse", "boundary"}
    /\ pc'[r] = "failed"

\* C4: when a run that shared no time with another run ends by a fatal error, the
\* status shows an error, the map holds no overlay, and the run takes no later step.
C4_FatalErrorLeavesMapCleared ==
    [][\A r \in Runs :
          /\ (FailsFatally(r) /\ ~overlap'[r] /\ nextRun' = r + 1)
                => /\ status'.isError /\ ~status'.isLoading
                   /\ mapLayers' = {} /\ surroundingLayer' = {}
          /\ pc[r] = "failed" => pc'[r] = "failed"]_vars

\* C5: no outcome of the regional-index request ends a run in Failed: a run that
\* waits for neighbour discovery reaches Ready, its target drawn, and a failed
\* request adds no neighbour overlay.
C5_NeighborDiscoveryNeverFatal ==
    [][\A r \in Runs :
          (pc[r] = "neighbor" /\ pc'[r] # "neighbor")
             => /\ pc'[r] = "ready"
                /\ (lastStep'.heard # "ok" => surroundingLayer' = surroundingLayer)]_vars

NoDataItems == <<"No per diem data for this zip.">>

\* A reply of the rate service that gives fetchPerDiem nothing to return: a
\* non-success response, a transport failure, an unreadable body, or a body that
\* normalizeRates throws on
RateFailure(reply) ==
    reply.k # "ok" \/ normalizeRates(RawRates(reply.data)).raised

\* C6: a run that waits for the rate service always moves on to neighbour
\* discovery with the rate panel shown, never to Failed; when the rate request
\* failed or its payload could not be read or normalized, the panel shows the
\* 'no data' placeholder.
C6_RateFailureNeverFatal ==
    [][\A r \in Runs :
          (pc[r] = "rate" /\ pc'[r] # "rate")
             => /\ pc'[r] = "neighbor"
                /\ ~status'.isError
                /\ ratePanel' = "block"
                /\ \A reply \in Replies(RateBodies) :
                      (RateReply(r, reply) /\ RateFailure(reply))
                         => rateList' = NoDataItems]_vars

C6_Witness ==
    \E r \in Runs :
       /\ pc[r] = "neighbor" /\ lastStep.run = r /\ lastStep.heard = "badjson"
       /\ ratePanel = "block" /\ rateList = NoDataItems

Has(d, e) == \E i \in DOMAIN d : d[i] = e
Before(d, a, b) == \E i, j \in DOMAIN d : i < j /\ d[i] = a /\ d[j] = b

\* Within the last step, every request follows the previous reply and the effect
\* that reply pays for
StepInOrder ==
    LET d == lastStep.did IN
    /\ Has(d, "reverseReq") =>
          Before(d, "geocodeReply", "reverseReq") \/ Before(d, "positionReply", "reverseReq")
    /\ Has(d, "boundaryReq") =>
          /\ Before(d, "geocodeReply", "setView") \/ Before(d, "reverseReply", "setView")
          /\ Before(d, "setView", "boundaryReq")
    /\ Has(d, "rateReq") =>
          Before(d, "boundaryReply", "drawTarget") /\ Before(d, "drawTarget", "rateReq")
    /\ Has(d, "neighborReq") =>
          Before(d, "rateReply", "displayRates") /\ Before(d, "displayRates", "neighborReq")

PipelineOrder ==
    { <<"idle", "geocode">>, <<"idle", "locating">>, <<"locating", "reverse">>,
      <<"geocode", "reverse">>, <<"geocode", "boundary">>, <<"reverse", "boundary">>,
      <<"boundary", "rate">>, <<"rate", "neighbor">>, <<"neighbor", "ready">> }

\* C7: a run's steps happen in the order resolve, boundary, rate, neighbours. It
\* issues the boundary request only in a step that has its place and postal code
\* and has centred the map on it, the rate request only in the step that received
\* the boundary reply and drew the target, and the regional-index request only in
\* the step that received the rate reply and displayed the rates.
C7_StepsInOrder ==
    [][\A r \in Runs :
          pc'[r] # pc[r] =>
             /\ pc'[r] = "failed" \/ <<pc[r], pc'[r]>> \in PipelineOrder
             /\ lastStep'.run = r
             /\ StepInOrder'
             /\ pc'[r] = "boundary" =>
                   /\ Has(lastStep'.did, "boundaryReq")
                   /\ local'[r].zip # ""
                   /\ mapView' = [center |-> local'[r].center, zoom |-> "11"]
             /\ pc'[r] = "rate" =>
                   /\ Has(lastStep'.did, "rateReq")
                   /\ targetLayer'.run = r /\ targetLayer' \in mapLayers'
             /\ pc'[r] = "neighbor" =>
                   /\ Has(lastStep'.did, "neighborReq")
                   /\ ratePanel' = "block" /\ rateList' # <<>>]_vars

C7_Witness ==
    \E r \in Runs :
       /\ pc[r] = "neighbor" /\ lastStep.run = r
       /\ lastStep.did = <<"rateReply", "displayRates", "neighborReq">>
       /\ targetLayer.run = r

\* A payload that is one record holding one sub-record whose breakdown, when
\* present, is a list of entries that each carry a numeric value
PlainBreakdown(r) ==
    \/ Get(r, "months") = Undef
    \/ /\ Get(r, "months").t = "object"
       /\ \/ Get(Get(r, "months"), "month") = Undef
          \/ /\ IsArray(Get(Get(r, "months"), "month"))
             /\ \A i \in DOMAIN Get(Get(r, "months"), "month").items :
                   Get(Get(Get(r, "months"), "month").items[i], "value").t = "number"

PlainRecord(raw) ==
    /\ raw.t = "object"
    /\ IsArray(Get(raw, "rate"))
    /\ Len(Get(raw, "rate").items) = 1
    /\ Get(raw, "rate").items[1].t = "object"
    /\ PlainBreakdown(Get(raw, "rate").items[1])

\* The breakdown values of a plain sub-record, <<>> when it has no breakdown
BreakdownValues(r) ==
    IF Get(r, "months") = Undef \/ Get(Get(r, "months"), "month") = Undef THEN <<>>
    ELSE LET month == Get(Get(r, "months"), "month").items
         IN  [i \in DOMAIN month |-> month[i].value.n]

\* The lodging the rule of C8 asks for
ClaimedLodging(values) ==
    IF values = <<>> THEN Str("N/A")
    ELSE LET lo == CHOOSE v \in {values[i] : i \in DOMAIN values} :
                      \A i \in DOMAIN values : v <= values[i]
             hi == CHOOSE v \in {values[i] : i \in DOMAIN values} :
                      \A i \in DOMAIN values : v >= values[i]
         IN  IF lo = hi THEN Num(lo) ELSE Str(ToString(lo) \o "-" \o ToString(hi))

\* C8: for a sub-record, lodging is the single value when the minimum and maximum
\* of its breakdown values are equal, the string "{min}-{max}" when they differ,
\* and "N/A" when the breakdown list is empty or absent.
C8_LodgingRule ==
    (fn = "normalizeRates" /\ called /\ PlainRecord(arg))
       => LET r == arg.rate.items[1]
          IN  result = Ok(<<[lodging |-> ClaimedLodging(BreakdownValues(r)),
                             mie |-> Get(r, "meals")]>>)

BreakdownNumbers == {80, 100, 120}
LodgingShaped(v) ==
    \/ v.t = "number"
    \/ v = Str("N/A")
    \/ \E a, b \in BreakdownNumbers : a < b /\ v = Str(ToString(a) \o "-" \o ToString(b))

\* C9: normalizeRates raises for no payload, and every lodging it yields is a
\* number, a range of two numbers, or "N/A".
C9_NormalizeNeverRaises ==
    (fn = "normalizeRates" /\ called)
       => /\ ~result.raised
          /\ \A i \in DOMAIN result.val : LodgingShaped(result.val[i].lodging)

\* The (lodging, M&IE) pair of a quote, a missing value replaced by "N/A"
OrMissing(v) == IF IsNullish(v) THEN Str("N/A") ELSE v
NormPair(q) == <<OrMissing(q.lodging), OrMissing(q.mie)>>

\* C10: dedupeRates keeps exactly the first quote of every distinct normalized
\* (lodging, M&IE) pair: no pair is kept twice and no two different pairs are
\* merged.
C10_DedupeByNormalizedPair ==
    (fn = "dedupeRates" /\ called)
       => LET firsts == {i \in DOMAIN arg :
                            \A j \in 1..(i - 1) : NormPair(arg[j]) # NormPair(arg[i])}
          IN  /\ Len(result) = Cardinality(firsts)
              /\ \A i \in firsts : \E k \in DOMAIN result : result[k] = arg[i]
              /\ \A k, l \in DOMAIN result :
                    k # l => NormPair(result[k]) # NormPair(result[l])

\* The positions of list whose key appears there for the first time
FirstSeen(list) ==
    {i \in DOMAIN list : \A j \in 1..(i - 1) : DedupeKey(list[j]) # DedupeKey(list[i])}

\* The k-th smallest member of a set of positions
Nth(positions, k) ==
    CHOOSE i \in positions : Cardinality({j \in positions : j <= i}) = k

\* C11: dedupeRates applied to its own result returns that result unchanged, and
\* dedupeRates(L) is the subsequence of L made of the first quote of each distinct
\* key, in the order those keys first appear in L.
C11_DedupeIdempotentFirstSeen ==
    [][/\ CallDedupeRates =>
             /\ Len(result') = Cardinality(FirstSeen(arg))
             /\ \A k \in DOMAIN result' : result'[k] = arg[Nth(FirstSeen(arg), k)]
       /\ CallDedupeRatesAgain => result' = result]_vars

C11_Witness ==
    /\ fn = "dedupeRates again"
    /\ Len(arg) = 2 /\ arg[1] # arg[2] /\ Len(result) = 1

\* The postal code an element carries, "" when it carries none
CodeOf(el) ==
    LET code == OptGet(Get(el, "tags"), "postal_code")
    IN  IF Truthy(code) THEN code.s ELSE ""

\* The elements of the reply given to fetchSurroundingZips, <<>> when it has none
GivenElements ==
    IF arg.reply.k = "ok" /\ ~IsNullish(arg.reply.data)
          /\ IsArray(Get(arg.reply.data, "elements"))
    THEN arg.reply.data.elements.items ELSE <<>>

\* The positions of the elements that are the first to carry a postal code other
\* than the target's
FirstCarriers ==
    {i \in DOMAIN GivenElements :
        /\ CodeOf(GivenElements[i]) \notin {"", arg.targetZip}
        /\ \A j \in 1..(i - 1) : CodeOf(GivenElements[j]) # CodeOf(GivenElements[i])}

\* C12: for every element list of the regional-index reply, the list
\* fetchSurroundingZips returns holds no candidate with the target postal code and
\* no two candidates with the same postal code; it holds, in encounter order, the
\* code and geometry of the first element that carried each remaining code.
C12_NeighborsExcludeTargetUnique ==
    (fn = "fetchSurroundingZips" /\ called /\ ~result.raised)
       => LET zones == result.val
          IN  /\ \A k \in DOMAIN zones : zones[k].postalCode # arg.targetZip
              /\ \A k, l \in DOMAIN zones :
                    k # l => zones[k].postalCode # zones[l].postalCode
              /\ Len(zones) = Cardinality(FirstCarriers)
              /\ \A k \in DOMAIN zones :
                    LET el == GivenElements[Nth(FirstCarriers, k)]
                    IN  zones[k] = [postalCode |-> CodeOf(el),
                                    geometry |-> Get(el, "geometry")]

C12_Witness ==
    /\ fn = "fetchSurroundingZips" /\ called /\ ~result.raised
    /\ Len(result.val) = 1
    /\ \E i \in DOMAIN GivenElements : CodeOf(GivenElements[i]) = arg.targetZip
    /\ \E i, j \in DOMAIN GivenElements :
          /\ i < j
          /\ CodeOf(GivenElements[i]) = result.val[1].postalCode
          /\ CodeOf(GivenElements[j]) = result.val[1].postalCode
          /\ Get(GivenElements[i], "geometry") # Get(GivenElements[j], "geometry")

\* The number of rate requests among the requests and effects of a step
RateRequests(d) == Cardinality({i \in DOMAIN d : d[i] = "rateReq"})

\* C13: a run issues a rate request in one step only, the one that enters the rate
\* stage, and there exactly one, for the postal code of the target it has just
\* drawn; the step that attaches the neighbour overlays issues none, however many
\* it attaches. Every overlay click adds exactly one pending rate request, for the
\* clicked overlay's postal code, also when an earlier click on that overlay was
\* already answered, and a click's reply adds none.
C13_LazyRateLookups ==
    [][/\ \A r \in Runs :
             pc'[r] # pc[r] =>
                /\ RateRequests(lastStep'.did) = IF pc'[r] = "rate" THEN 1 ELSE 0
                /\ pc'[r] = "rate" =>
                      pc[r] = "boundary" /\ targetLayer'.zip = local'[r].zip
                /\ pc[r] \in {"rate", "neighbor", "ready", "failed"} =>
                      pc'[r] \notin {"boundary", "rate"}
       /\ nclicks' # nclicks =>
             /\ nclicks' = nclicks + 1
             /\ pc' = pc /\ lastStep' = lastStep
             /\ \E layer \in Overlays :
                   /\ clicks' = clicks \cup {[id |-> nclicks', layer |-> layer]}
                   /\ Cardinality(clicks') = Cardinality(clicks) + 1
       /\ nclicks' = nclicks => clicks' \subseteq clicks]_vars

C13_Witness ==
    /\ lastStep.did = <<"neighborReply", "attach", "attach", "complete">>
    /\ popup.open
    /\ \E c \in clicks :
          c.id = 2 /\ c.layer.role = "neighbor" /\ c.layer.zip = popup.zip

\* The postcode a reverse-lookup reply carries, Null when it carries none
ReplyPostcode(reply) ==
    IF reply.k = "ok" /\ ~IsNullish(reply.data)
    THEN OrElse(OptGet(Get(reply.data, "address"), "postcode"), Null)
    ELSE Null

\* C14: when the place found by the search carries a postcode, the run goes on
\* with that postcode and issues no reverse lookup; when it carries none, the run
\* issues exactly one reverse lookup. Whatever reply that lookup receives, the run
\* goes on with the reply's postcode when it carries one, and otherwise
\* resolveZip returns absent without raising and the run ends with the
\* no-postal-code error.
C14_ResolveZip ==
    [][\A r \in Runs :
          /\ \A reply \in Successes({Arr(<<p>>) : p \in Places}) :
                GeocodeReply(r, reply) =>
                   LET postcode == PlacePostcode(reply.data.items[1])
                   IN  IF Truthy(postcode)
                       THEN /\ pc'[r] = "boundary" /\ local'[r].zip = postcode.s
                            /\ ~Has(lastStep'.did, "reverseReq")
                       ELSE /\ pc'[r] = "reverse"
                            /\ Cardinality({i \in DOMAIN lastStep'.did :
                                               lastStep'.did[i] = "reverseReq"}) = 1
          /\ \A reply \in Replies(ReverseBodies) \ {Rejected} :
                ReverseReply(r, reply) =>
                   IF Truthy(ReplyPostcode(reply))
                   THEN pc'[r] = "boundary" /\ local'[r].zip = ReplyPostcode(reply).s
                   ELSE /\ pc'[r] = "failed"
                        /\ status' = updateStatus(NoZipMessage(kind[r]), TRUE, FALSE)]_vars

\* A successful reply of the boundary service whose first match, if any, has no
\* geometry
NoGeometry(reply) ==
    reply.k = "ok" /\ ~Truthy(OptGet(First(reply.data), "geojson"))

\* C15: when the boundary service answers successfully without a geometry, the
\* run enters the rate stage and reports no error: in that step it attaches a point
\* marker at the resolved coordinate as the tracked target overlay, bound to the
\* target postal code, leaves the view where updateView centred it, and issues the
\* rate request.
C15_MarkerFallback ==
    [][\A r \in Runs : \A reply \in Replies(BoundaryBodies) :
          (pc[r] = "boundary" /\ BoundaryReply(r, reply) /\ NoGeometry(reply)) =>
             /\ pc'[r] = "rate" /\ status' = status
             /\ targetLayer' = [run |-> r, role |-> "target", zip |-> local[r].zip,
                                shape |-> "marker", at |-> local[r].center]
             /\ targetLayer' \in mapLayers'
             /\ mapView' = mapView
             /\ Has(lastStep'.did, "rateReq")]_vars

C15_Witness ==
    \E r \in Runs :
       /\ pc[r] = "rate" /\ lastStep.run = r /\ lastStep.heard = "ok"
       /\ targetLayer.shape = "marker" /\ targetLayer.zip = local[r].zip
       /\ targetLayer.at = local[r].center /\ targetLayer \in mapLayers

CompletionMessage == "Click any shaded area to see its per diem rate."

\* The number of neighbour layers the last step built and added (lines 272-280)
Attachments(d) == Cardinality({i \in DOMAIN d : d[i] = "attach"})

\* The neighbour overlays of run r attached to the map
AttachedBy(r) == {layer \in surroundingLayer : layer.run = r /\ layer.role = "neighbor"}

\* C16, as claimed: when a run that discovered a neighbour with a shape announces
\* completion, a neighbour overlay of that run is not attached yet.
C16_CompletionBeforeAttachment ==
    [][\A r \in Runs :
          (pc[r] = "neighbor" /\ pc'[r] = "ready" /\ Attachments(lastStep'.did) > 0)
             => Cardinality(AttachedBy(r)') < Attachments(lastStep'.did)]_vars

\* C16, amended: in the step in which a run announces completion, every neighbour
\* overlay of that run is attached, each before the announcement, and once the run
\* is Ready no overlay of it is attached any more.
C16_AttachedBeforeCompletion ==
    [][\A r \in Runs :
          /\ (pc[r] = "neighbor" /\ pc'[r] = "ready") =>
                /\ status'.message = CompletionMessage
                /\ \A i, j \in DOMAIN lastStep'.did :
                      (lastStep'.did[i] = "attach" /\ lastStep'.did[j] = "complete")
                         => i < j
                /\ Cardinality(AttachedBy(r)') = Attachments(lastStep'.did)
          /\ pc[r] = "ready" =>
                {layer \in Overlays' : layer.run = r} \subseteq Overlays]_vars

C16_Witness ==
    \E r \in Runs :
       /\ pc[r] = "ready" /\ lastStep.run = r
       /\ lastStep.did = <<"neighborReply", "attach", "complete">>
       /\ status.message = CompletionMessage
       /\ \E layer \in surroundingLayer : layer.run = r

\* C17: a step that takes an overlay off the map is a step in which a run begins,
\* by the clear at its start; drawing a target, displaying rates, attaching
\* neighbour overlays, an overlay click, its popup and a failing run leave every
\* overlay on the map in place.
C17_OverlaysRemovedOnlyByClear ==
    [][(Overlays \ Overlays' # {}) =>
          \E r \in Runs :
             /\ Begins(r)
             /\ Has(lastStep'.did, "clear")
             /\ Overlays' = Overlays \ ({targetLayer} \cup surroundingLayer)]_vars

C17_Witness ==
    /\ nextRun = 3 /\ pc[2] = "geocode" /\ pc[1] \in {"ready", "failed"}
    /\ popup.open /\ popup.zip = "z1"
    /\ Overlays = {}

\* C18: when every request a run waits on is eventually answered, every started
\* run eventually is Ready or Failed, so none stays for ever in a resolving or
\* loading stage; a Failed run stays Failed, takes no further step and adds no
\* overlay.
C18_RunsTerminate ==
    /\ \A r \in Runs : (pc[r] # "idle") ~> (pc[r] \in {"ready", "failed"})
    /\ [][\A r \in Runs :
             pc[r] = "failed" =>
                /\ pc'[r] = "failed"
                /\ lastStep' # lastStep => lastStep'.run # r
                /\ {layer \in Overlays' : layer.run = r} \subseteq Overlays]_vars

C18_Witness ==
    \E r \in Runs :
       /\ pc[r] = "failed" /\ lastStep.run = r /\ lastStep.heard = "notok"
       /\ status.message = "Could not load boundary for the target Zip Code."
       /\ status.isError

\* The most recently started run, and the state in which overlapping searches
\* and the clicks on their overlays have all finished
LatestRun == nextRun - 1

OverlapSettled ==
    /\ nextRun > 2 /\ InFlight = {} /\ clicks = {}
    /\ overlap[LatestRun]
    /\ \A r \in 1..LatestRun : kind[r] = "search"

\* What the rate panel can list for a postal code
PanelsFor(zip) ==
    {displayRates(zip, fetchPerDiem(reply).val) : reply \in Replies(RateBodies)}

\* C19: once overlapping searches have all finished, the rate panel is hidden when
\* the most recently started one failed before drawing its target, and otherwise
\* shows a rate list for that run's postal code, whatever the order in which the
\* rate replies of the runs arrived.
C19_PanelOfLatestRun ==
    OverlapSettled =>
       LET drawn == {layer \in mapLayers : layer.run = LatestRun}
       IN  IF drawn = {} THEN ratePanel = "none"
           ELSE /\ ratePanel = "block"
                /\ \A layer \in drawn : rateList \in PanelsFor(layer.zip)

\* C20: once overlapping searches have all finished, the status carries the error
\* mark exactly when the most recently started one ended in Failed, and shows the
\* completion message when it ended in Ready, whatever the order in which the runs
\* ended.
C20_StatusOfLatestRun ==
    OverlapSettled =>
       /\ status.isError <=> pc[LatestRun] = "failed"
       /\ pc[LatestRun] = "ready" => status.message = CompletionMessage
       /\ ~status.isLoading

====
